---- MODULE Spec2Model ----
(***************************************************************************)
(* Model of ue4ss_installer_core: the release catalog client (paginated    *)
(* fetch, sort, is_latest, process-wide cache), the release selector       *)
(* queries, the installer and the settings-file parser/writer.             *)
(*                                                                         *)
(* Conventions                                                             *)
(*  - Python None is the empty tuple <<>> and a held object x is <<x>>     *)
(*    (Some(x)); a missing tag name is the string NoneTag.                 *)
(*  - A JSON release object is a record plus the set `keys` of the keys    *)
(*    that are present; Get(r, k, d) is dict.get(k, d).                    *)
(*  - created_at timestamps are ISO-8601 strings compared as strings by    *)
(*    sorted(); they are modelled by naturals with the same order, the     *)
(*    default "" being 0, below every timestamp.                           *)
(*  - A URL is the sequence of its words; lower() lower-cases each word    *)
(*    and `"w" in url` is membership of the word.                          *)
(***************************************************************************)
EXTENDS Integers, Sequences, FiniteSets, TLC

VARIABLES
    cached_repo_releases_info, \* the module global: None or Some(catalog)
    all_releases,              \* get_all_release_assets: entries accumulated by the fetch that returned
    requested,                 \* pages requested by the last fetch, in request order
    failed_fetches,            \* fetches that raised so far (saturating at MaxFailures)
    result,                    \* outcome of the last operation called
    zip_file,                  \* content of cacheDir/ue4ss.zip: None or Some(archive)
    game_dir,                  \* archives extracted into the target directory, in order
    trace,                     \* steps performed by the last install call
    file_text,                 \* content of the settings file on disk
    sections,                  \* parse result held by the caller: None or Some(list)
    remote_api                 \* the API's answers page by page, where a behaviour fixes them

vars == <<cached_repo_releases_info, all_releases, requested, failed_fetches, result,
          zip_file, game_dir, trace, file_text, sections, remote_api>>

catalogVars == <<cached_repo_releases_info, all_releases, requested, failed_fetches>>
fsVars == <<zip_file, game_dir, trace>>
iniVars == <<file_text, sections>>
envVars == <<remote_api>>

-----------------------------------------------------------------------------
(* Bounds of the model *)

MaxReleases == 2
MaxPages == 2
MaxAssets == 3
MaxChars == 6
MaxFailures == 1
MaxLifeReleases == 1

-----------------------------------------------------------------------------
(* Basic values *)

None == <<>>
Some(x) == <<x>>
NoneTag == "<None>"
HTTP_OK == 200
HTTP_NOT_FOUND == 404

Min(a, b) == IF a < b THEN a ELSE b

Range(s) == {s[i] : i \in 1..Len(s)}

RECURSIVE SeqsUpTo(_, _)
SeqsUpTo(S, n) ==
    IF n = 0 THEN {<<>>}
    ELSE LET shorter == SeqsUpTo(S, n - 1)
         IN shorter \cup {Append(s, x) : s \in {t \in shorter : Len(t) = n - 1}, x \in S}

Get(r, k, default) == IF k \in r.keys THEN r[k] ELSE default

-----------------------------------------------------------------------------
(* URLs and the naming heuristic *)

LowerWord(w) ==
    CASE w = "UE4SS" -> "ue4ss"
      [] w = "zDEV" -> "zdev"
      [] w = "X" -> "x"
      [] OTHER -> w

Lower(url) == [i \in 1..Len(url) |-> LowerWord(url[i])]

Contains(url, w) == \E i \in 1..Len(url) : url[i] = w


-----------------------------------------------------------------------------
(* The release-hosting API: JSON release objects and paginated responses *)

ReleaseKeys == {"tag_name", "prerelease", "created_at", "assets"}

\* A JSON asset object; the three keys are read with [] and must be present.
JsonAsset(name, url) ==
    [name |-> name, browser_download_url |-> url, created_at |-> 1]

\* A JSON release object with the keys of `missing` left out.
JsonRelease(missing, tag, pre, time, assets) ==
    [keys |-> ReleaseKeys \ missing,
     tag_name |-> IF "tag_name" \in missing THEN NoneTag ELSE tag,
     prerelease |-> IF "prerelease" \in missing THEN FALSE ELSE pre,
     created_at |-> IF "created_at" \in missing THEN 0 ELSE time,
     assets |-> IF "assets" \in missing THEN <<>> ELSE assets]

JsonReleases(Optional, Tags, Pres, Times, AssetLists) ==
    {JsonRelease(missing, tag, pre, time, assets) :
        missing \in SUBSET Optional, tag \in Tags, pre \in Pres,
        time \in Times, assets \in AssetLists}

OkResponse(body) == [status_code |-> HTTP_OK, body |-> body]
ErrorResponse == [status_code |-> HTTP_NOT_FOUND, body |-> <<>>]

\* The shapes of an API behaviour that returns n releases in all over at
\* most p pages: per page the number of its entries, 0 for an empty page
\* and, with errors, -1 for a non-success answer.
RECURSIVE Shapes(_, _, _)
Shapes(n, p, errors) ==
    (IF n = 0 THEN {<<>>} ELSE {}) \cup
    (IF p = 0 THEN {}
     ELSE UNION {{<<k>> \o rest :
                     rest \in Shapes(IF k < 0 THEN n ELSE n - k, p - 1, errors)} :
                    k \in (IF errors THEN {-1} ELSE {}) \cup 0..n})

\* The API's answers to page 1, 2, ...: the releases rs dealt out to the
\* pages of a shape.
RECURSIVE MakeApi(_, _)
MakeApi(rs, shape) ==
    IF shape = <<>> THEN <<>>
    ELSE IF Head(shape) < 0 THEN <<ErrorResponse>> \o MakeApi(rs, Tail(shape))
    ELSE <<OkResponse(SubSeq(rs, 1, Head(shape)))>>
             \o MakeApi(SubSeq(rs, Head(shape) + 1, Len(rs)), Tail(shape))

\* requests.get(url, params={"page": page, "per_page": 100}); past the last
\* page the API has, it answers with an empty list.
ApiGet(api, page) == IF page <= Len(api) THEN api[page] ELSE OkResponse(<<>>)

-----------------------------------------------------------------------------
(* Release Catalog Client *)

ReleaseTagAssetInfo(asset) ==
    [file_name |-> asset.name,
     download_link |-> asset.browser_download_url,
     created_at |-> asset.created_at]

CreatedAtKey(r) == Get(r, "created_at", 0)

\* sorted(all_releases, key=created_at, reverse=True): Python's sort is
\* stable, also with reverse=True, so an entry goes after every entry whose
\* key is greater than or equal to its own.
RECURSIVE InsertReverseUnstable(_, _)
InsertReverseUnstable(s, r) ==
    IF s = <<>> THEN <<r>>
    ELSE IF CreatedAtKey(Head(s)) > CreatedAtKey(r)
         THEN <<Head(s)>> \o InsertReverseUnstable(Tail(s), r)
         ELSE <<r>> \o s

RECURSIVE InsertReverse(_, _)
InsertReverse(s, r) ==
    IF s = <<>> THEN <<r>>
    ELSE IF CreatedAtKey(Head(s)) >= CreatedAtKey(r)
         THEN <<Head(s)>> \o InsertReverse(Tail(s), r)
         ELSE <<r>> \o s

RECURSIVE SortedReverse(_)
SortedReverse(s) ==
    IF s = <<>> THEN <<>>
    ELSE InsertReverse(SortedReverse(SubSeq(s, 1, Len(s) - 1)), s[Len(s)])

FetchFirstPageOnly(api, page, acc, reqs) ==
    LET response == ApiGet(api, page)
    IN [raised |-> response.status_code # HTTP_OK, status_code |-> response.status_code,
        all_releases |-> acc \o response.body, requested |-> Append(reqs, page)]

\* The pagination loop: the state after requesting `page` with `acc`
\* accumulated and `reqs` requested so far.
RECURSIVE FetchPages(_, _, _, _)
FetchPages(api, page, acc, reqs) ==
    LET response == ApiGet(api, page)
        asked == Append(reqs, page)
    IN IF response.status_code # HTTP_OK
       THEN [raised |-> TRUE, status_code |-> response.status_code,
             all_releases |-> acc, requested |-> asked]
       ELSE IF response.body = <<>>
       THEN [raised |-> FALSE, status_code |-> response.status_code,
             all_releases |-> acc, requested |-> asked]
       ELSE FetchPages(api, page + 1, acc \o response.body, asked)

\* The first release in sorted order that is not a prerelease gives
\* latest_tag; it stays None when there is none.
RECURSIVE LatestTag(_)
LatestTag(sorted_releases) ==
    IF sorted_releases = <<>> THEN NoneTag
    ELSE IF ~Get(Head(sorted_releases), "prerelease", FALSE)
         THEN Get(Head(sorted_releases), "tag_name", NoneTag)
         ELSE LatestTag(Tail(sorted_releases))

IsLatest(sorted_releases, i, latest_tag) ==
    Get(sorted_releases[i], "tag_name", NoneTag) = latest_tag

HasAssetsAlways(assets) == TRUE

HasAssets(assets) == assets # <<>>

ReleaseAssetInfo(sorted_releases, i, latest_tag) ==
    LET release == sorted_releases[i]
        assets_list == Get(release, "assets", <<>>)
        assets == [k \in 1..Len(assets_list) |-> ReleaseTagAssetInfo(assets_list[k])]
    IN [tag |-> Get(release, "tag_name", NoneTag),
        is_prerelease |-> Get(release, "prerelease", FALSE),
        is_latest |-> IsLatest(sorted_releases, i, latest_tag),
        has_assets |-> HasAssets(assets),
        created_at |-> Get(release, "created_at", 0),
        assets |-> assets]

BuildCatalog(owner, repo, releases) ==
    LET sorted_releases == SortedReverse(releases)
        latest_tag == LatestTag(sorted_releases)
    IN [owner |-> owner, repo |-> repo,
        tags |-> [i \in 1..Len(sorted_releases) |->
                     ReleaseAssetInfo(sorted_releases, i, latest_tag)]]

get_all_release_assets(owner, repo, api) ==
    LET fetched == FetchPages(api, 1, <<>>, <<>>)
    IN IF fetched.raised
       THEN [raised |-> TRUE, status_code |-> fetched.status_code, value |-> None,
             all_releases |-> fetched.all_releases, requested |-> fetched.requested]
       ELSE [raised |-> FALSE, status_code |-> fetched.status_code,
             value |-> Some(BuildCatalog(owner, repo, fetched.all_releases)),
             all_releases |-> fetched.all_releases, requested |-> fetched.requested]

-----------------------------------------------------------------------------
(* Outcomes of operations *)

Raise(op, arg, error) == [op |-> op, arg |-> arg, status |-> error, value |-> <<>>]
Return(op, arg, value) == [op |-> op, arg |-> arg, status |-> "ok", value |-> value]
NotCached(op, arg) == Raise(op, arg, "CatalogNotCachedError")


-----------------------------------------------------------------------------
(* Release Selector: each query as a function of the module global *)

DictPutKeepingFirst(d, k, v) ==
    IF \E i \in 1..Len(d) : d[i][1] = k THEN d ELSE Append(d, <<k, v>>)

\* An insertion-ordered dict as a sequence of <<key, value>> pairs with
\* distinct keys: d[k] = v replaces the value of a key already present and
\* keeps its position.
DictPut(d, k, v) ==
    IF \E i \in 1..Len(d) : d[i][1] = k
    THEN [i \in 1..Len(d) |-> IF d[i][1] = k THEN <<k, v>> ELSE d[i]]
    ELSE Append(d, <<k, v>>)

RECURSIVE DictOfAssetsFrom(_, _)
DictOfAssetsFrom(assets, d) ==
    IF assets = <<>> THEN d
    ELSE DictOfAssetsFrom(Tail(assets),
                          DictPut(d, Head(assets).file_name, Head(assets).download_link))

DictOfAssets(assets) == DictOfAssetsFrom(assets, <<>>)

DictValues(d) == [i \in 1..Len(d) |-> d[i][2]]

RECURSIVE FirstTagNamed(_, _)
FirstTagNamed(tags, tag) ==
    IF tags = <<>> THEN None
    ELSE IF Head(tags).tag = tag THEN Some(Head(tags))
    ELSE FirstTagNamed(Tail(tags), tag)

get_file_name_to_download_links_from_tag(cached, tag) ==
    IF cached = None THEN NotCached("asset_map", tag)
    ELSE LET found == FirstTagNamed(cached[1].tags, tag)
         IN IF found = None THEN Return("asset_map", tag, <<>>)
            ELSE Return("asset_map", tag, DictOfAssets(found[1].assets))

TagNamesOf(tag_infos) == [i \in 1..Len(tag_infos) |-> tag_infos[i].tag]

get_all_tags_with_assets(cached) ==
    IF cached = None THEN NotCached("tags_with_assets", "")
    ELSE LET Test(t) == t.has_assets
         IN Return("tags_with_assets", "", TagNamesOf(SelectSeq(cached[1].tags, Test)))

get_pre_release_tags_with_assets(cached) ==
    IF cached = None THEN NotCached("pre_release_tags_with_assets", "")
    ELSE LET Test(t) == t.has_assets /\ t.is_prerelease
         IN Return("pre_release_tags_with_assets", "", TagNamesOf(SelectSeq(cached[1].tags, Test)))

NormalReleaseTagsUnfiltered(cached) ==
    IF cached = None THEN NotCached("normal_release_tags_with_assets", "")
    ELSE LET Test(t) == t.has_assets
         IN Return("normal_release_tags_with_assets", "", TagNamesOf(SelectSeq(cached[1].tags, Test)))

get_normal_release_tags_with_assets(cached) ==
    IF cached = None THEN NotCached("normal_release_tags_with_assets", "")
    ELSE LET Test(t) == t.has_assets /\ ~t.is_prerelease
         IN Return("normal_release_tags_with_assets", "", TagNamesOf(SelectSeq(cached[1].tags, Test)))

DefaultTagOfAnyKind(cached) ==
    IF cached = None THEN Return("default_tag", "", "latest")
    ELSE LET any == get_all_tags_with_assets(cached).value
         IN IF any = <<>> THEN Raise("default_tag", "", "NoDefaultTagError")
            ELSE Return("default_tag", "", any[1])

\* [0] on an empty list raises IndexError: the NoDefaultTagError failure.
get_default_ue4ss_version_tag(cached) ==
    IF cached = None THEN Return("default_tag", "", "latest")
    ELSE LET normal == get_normal_release_tags_with_assets(cached).value
         IN IF normal = <<>> THEN Raise("default_tag", "", "NoDefaultTagError")
            ELSE Return("default_tag", "", normal[1])

IsCompatibleCaseSensitive(link) ==
    Contains(Lower(link), "ue4ss") /\ ~Contains(link, "zdev")

\* "ue4ss" in link.lower() and "zdev" not in link.lower()
IsCompatible(link) ==
    Contains(Lower(link), "ue4ss") /\ ~Contains(Lower(link), "zdev")

RECURSIVE FirstCompatible(_)
FirstCompatible(links) ==
    IF links = <<>> THEN None
    ELSE IF IsCompatible(Head(links)) THEN Some(Head(links))
    ELSE FirstCompatible(Tail(links))

\* The selection both install entry points perform on a tag: the asset map,
\* next(...) over its values, and the RuntimeError when nothing qualifies
\* (`not final_download_link` also rejects an empty link).
select_installable_asset(cached, tag) ==
    LET file_names_to_download_links == get_file_name_to_download_links_from_tag(cached, tag)
    IN IF file_names_to_download_links.status # "ok"
       THEN Raise("select_asset", tag, file_names_to_download_links.status)
       ELSE LET final_download_link ==
                    FirstCompatible(DictValues(file_names_to_download_links.value))
            IN IF final_download_link = None \/ final_download_link = Some(<<>>)
               THEN Raise("select_asset", tag, "NoCompatibleAssetError")
               ELSE Return("select_asset", tag, final_download_link[1])


-----------------------------------------------------------------------------
(* Input domains *)

CanonicalOwner == "UE4SS-RE"
CanonicalRepo == "RE-UE4SS"
Repositories == {<<CanonicalOwner, CanonicalRepo>>, <<"someone", "fork">>}

TagNames == {"v1", "v2"}
QueryTags == TagNames \cup {NoneTag, "latest"}
LifeTags == {"v1", "v2"}

UrlRelease == <<"UE4SS", "zip">>
UrlDev == <<"ue4ss", "zDEV">>
UrlOther == <<"readme">>
UrlMirror == <<"mirror", "ue4ss">>
Urls == {UrlRelease, UrlDev, UrlOther, UrlMirror}

\* Releases of the lifecycle specification: a normal release and a
\* prerelease, each with the one installable asset.
LifeAssetLists == {<<JsonAsset("a.zip", UrlRelease)>>}
LifeReleases == JsonReleases({}, {"v1"}, BOOLEAN, {1}, LifeAssetLists)

\* The API is consulted only by a call that fetches: the empty behaviour
\* stands for all of them in a state where no request is made.
ReleaseCounts(max) ==
    IF cached_repo_releases_info = None THEN 0..max ELSE {0}
ShapesRead(n, errors) ==
    IF cached_repo_releases_info = None THEN Shapes(n, MaxPages, errors) ELSE {<<>>}

-----------------------------------------------------------------------------
(* Operations of the catalog client and the selector *)

CachedAfterPartial(owner, repo, fetched) ==
    Some(BuildCatalog(owner, repo, fetched.all_releases))

\* What the assignment at line 56 leaves in the global: an exception raised
\* by get_all_release_assets leaves it untouched (None).
CachedAfter(owner, repo, fetched) ==
    IF fetched.raised THEN None ELSE fetched.value

FetchAgain(cached) == TRUE

\* The guard at line 55.
MustFetch(cached) == cached = None

cache_repo_releases_info(owner, repo, api) ==
    IF MustFetch(cached_repo_releases_info)
    THEN LET fetched == get_all_release_assets(owner, repo, api)
         IN /\ cached_repo_releases_info' = CachedAfter(owner, repo, fetched)
            /\ all_releases' = IF fetched.raised THEN all_releases ELSE fetched.all_releases
            /\ requested' = fetched.requested
            /\ failed_fetches' = IF fetched.raised
                                 THEN Min(failed_fetches + 1, MaxFailures)
                                 ELSE failed_fetches
    ELSE UNCHANGED catalogVars

CacheRepoReleasesInfo(owner, repo, api) ==
    /\ cache_repo_releases_info(owner, repo, api)
    /\ result' = IF MustFetch(cached_repo_releases_info)
                    /\ get_all_release_assets(owner, repo, api).raised
                 THEN Raise("cache", owner, "RemoteAPIError")
                 ELSE Return("cache", owner, <<>>)
    /\ UNCHANGED <<fsVars, iniVars, envVars>>

Query(outcome) ==
    /\ result' = outcome
    /\ UNCHANGED <<catalogVars, fsVars, iniVars, envVars>>

GetAllTagsWithAssets == Query(get_all_tags_with_assets(cached_repo_releases_info))
GetPreReleaseTagsWithAssets == Query(get_pre_release_tags_with_assets(cached_repo_releases_info))
GetNormalReleaseTagsWithAssets == Query(get_normal_release_tags_with_assets(cached_repo_releases_info))
GetDefaultUe4ssVersionTag == Query(get_default_ue4ss_version_tag(cached_repo_releases_info))
GetFileNameToDownloadLinksFromTag(tag) ==
    Query(get_file_name_to_download_links_from_tag(cached_repo_releases_info, tag))
SelectInstallableAsset(tag) == Query(select_installable_asset(cached_repo_releases_info, tag))

Selector(Tags) ==
    \/ GetAllTagsWithAssets
    \/ GetPreReleaseTagsWithAssets
    \/ GetNormalReleaseTagsWithAssets
    \/ GetDefaultUe4ssVersionTag
    \/ \E tag \in Tags : GetFileNameToDownloadLinksFromTag(tag)
    \/ \E tag \in Tags : SelectInstallableAsset(tag)


-----------------------------------------------------------------------------
(* Archive & transfer utility (file_io.py) and the installer *)

\* How a transfer can end: the whole body written and a valid archive, the
\* whole body written but not a valid archive, an exception after open()
\* (a truncated file is left), an exception before open() (no file).
DownloadOutcomes == {"valid", "corrupt", "partial", "no_file"}

Archive(link, state) == [link |-> link, state |-> state]

\* download_file catches every exception, prints it and returns normally;
\* the value is the file left at destination_path.
download_file(url, outcome) ==
    IF outcome = "no_file" THEN None ELSE Some(Archive(url, outcome))

\* unzip_zip: ZipFile() raises FileNotFoundError on a missing file and
\* BadZipFile on a truncated or invalid one, before anything is extracted.
unzip_zip(zip) ==
    IF zip = None THEN "FileNotFoundError"
    ELSE IF zip[1].state # "valid" THEN "ArchiveExtractionError"
    ELSE "ok"

\* What download_file prints: "Downloaded:" after the whole body was
\* written, "Failed to download" in the except branch.
download_step(outcome) ==
    IF outcome \in {"valid", "corrupt"} THEN "download" ELSE "download_failed"

UnlinkSkipped(zip) == zip

\* ue4ss_zip_path.unlink(): what is at the path afterwards.
unlink(zip) == None

\* `not cached_repo_releases_info` at lines 289 and 316: an instance of the
\* dataclass is truthy whatever its fields hold.
NotCachedYet(cached) == cached = None

PathNeverExists(zip) == FALSE

PathExistsIfValid(zip) == zip # None /\ zip[1].state = "valid"

\* ue4ss_zip_path.exists() at lines 288 and 315.
PathExists(zip) == zip # None

ResolveTagOfAnyKind(entry, release_tag, cached) ==
    IF entry = "latest" THEN DefaultTagOfAnyKind(cached)
    ELSE Return("tag", "", release_tag)

\* The tag an entry point installs: line 292 of install_latest_ue4ss_to_dir,
\* the release_tag argument of install_ue4ss_to_dir.
resolve_tag(entry, release_tag, cached) ==
    IF entry = "latest" THEN get_default_ue4ss_version_tag(cached)
    ELSE Return("tag", "", release_tag)

\* Lines 288-309 and 315-335 with the catalog already ensured: `cached` is
\* the global after the cache step, `fetch_raised` whether that step raised.
install_steps(op, entry, release_tag, cached, fetch_raised, zip, dir, outcome) ==
    LET arg == IF entry = "latest" THEN "" ELSE release_tag
        Finish(status, z, d, t) ==
            [result |-> IF status = "ok" THEN Return(op, arg, <<>>) ELSE Raise(op, arg, status),
             zip_file |-> z, game_dir |-> d, trace |-> t]
        Extract(z, t) ==
            LET unzipped == unzip_zip(z)
            IN IF unzipped # "ok" THEN Finish(unzipped, z, dir, Append(t, "extract"))
               ELSE Finish("ok", unlink(z), dir \cup {z[1].link},
                           t \o <<"extract", "delete">>)
    IN IF PathExists(zip) THEN Extract(zip, <<>>)
       ELSE IF fetch_raised THEN Finish("RemoteAPIError", zip, dir, <<"ensure_cached">>)
       ELSE LET tag == resolve_tag(entry, release_tag, cached)
            IN IF tag.status # "ok"
               THEN Finish(tag.status, zip, dir, <<"ensure_cached", "resolve_tag">>)
               ELSE LET selected == select_installable_asset(cached, tag.value)
                    IN IF selected.status # "ok"
                       THEN Finish(selected.status, zip, dir,
                                   <<"ensure_cached", "resolve_tag", "select_asset">>)
                       ELSE Extract(download_file(selected.value, outcome),
                                    <<"ensure_cached", "resolve_tag", "select_asset",
                                      download_step(outcome)>>)

InstallCall(op, entry, release_tag, api, outcome) ==
    /\ IF ~PathExists(zip_file) /\ NotCachedYet(cached_repo_releases_info)
       THEN cache_repo_releases_info(CanonicalOwner, CanonicalRepo, api)
       ELSE UNCHANGED catalogVars
    /\ LET fetch_raised ==
               /\ ~PathExists(zip_file)
               /\ NotCachedYet(cached_repo_releases_info)
               /\ MustFetch(cached_repo_releases_info)
               /\ get_all_release_assets(CanonicalOwner, CanonicalRepo, api).raised
           done == install_steps(op, entry, release_tag, cached_repo_releases_info',
                                 fetch_raised, zip_file, game_dir, outcome)
       IN /\ result' = done.result
          /\ zip_file' = done.zip_file
          /\ game_dir' = done.game_dir
          /\ trace' = done.trace
    /\ UNCHANGED <<iniVars, envVars>>

install_latest_ue4ss_to_dir(api, outcome) ==
    InstallCall("install_latest", "latest", "", api, outcome)

install_ue4ss_to_dir(release_tag, api, outcome) ==
    InstallCall("install", "tag", release_tag, api, outcome)

\* The environment: something outside the installer leaves a file at
\* cacheDir/ue4ss.zip, or removes the one that is there.
ExternalArchives == {Archive(<<"external">>, "valid"), Archive(<<"external">>, "corrupt")}

ExternalPutZip(archive) ==
    /\ zip_file = None
    /\ zip_file' = Some(archive)
    /\ UNCHANGED <<catalogVars, result, game_dir, trace, iniVars, envVars>>

ExternalRemoveZip ==
    /\ zip_file # None
    /\ zip_file' = None
    /\ UNCHANGED <<catalogVars, result, game_dir, trace, iniVars, envVars>>

-----------------------------------------------------------------------------
(* The lifecycle specification *)

NoResult == Return("none", "", <<>>)

Init ==
    /\ cached_repo_releases_info = None
    /\ all_releases = <<>>
    /\ requested = <<>>
    /\ failed_fetches = 0
    /\ result = NoResult
    /\ zip_file = None
    /\ game_dir = {}
    /\ trace = <<>>
    /\ file_text = <<>>
    /\ sections = None
    /\ remote_api = <<>>

Next ==
    \/ \E repository \in Repositories, n \in ReleaseCounts(MaxLifeReleases) :
           \E rs \in [1..n -> LifeReleases], shape \in ShapesRead(n, TRUE) :
               CacheRepoReleasesInfo(repository[1], repository[2], MakeApi(rs, shape))
    \/ Selector(LifeTags)
    \/ \E outcome \in DownloadOutcomes, n \in ReleaseCounts(MaxLifeReleases) :
           \E rs \in [1..n -> LifeReleases], shape \in ShapesRead(n, TRUE) :
               install_latest_ue4ss_to_dir(MakeApi(rs, shape), outcome)
    \/ \E tag \in LifeTags, outcome \in DownloadOutcomes, n \in ReleaseCounts(MaxLifeReleases) :
           \E rs \in [1..n -> LifeReleases], shape \in ShapesRead(n, TRUE) :
               install_ue4ss_to_dir(tag, MakeApi(rs, shape), outcome)
    \/ \E archive \in ExternalArchives : ExternalPutZip(archive)
    \/ ExternalRemoveZip

Spec == Init /\ [][Next]_vars


-----------------------------------------------------------------------------
(* Claims checked under Spec *)

SelectorOps == {"tags_with_assets", "pre_release_tags_with_assets",
                "normal_release_tags_with_assets", "default_tag",
                "asset_map", "select_asset"}

\* C1: once the catalog is held, no step of any operation (a cache call with
\* any owner/repo, a selector query, an install call) replaces it, and no
\* step issues an API request: the held catalog, the accumulated entries and
\* the pages requested stay what they were.
C1_CatalogNeverChanges ==
    [][cached_repo_releases_info # None =>
           /\ cached_repo_releases_info' = cached_repo_releases_info
           /\ requested' = requested
           /\ all_releases' = all_releases]_vars

\* C1 witness: a cache call for another owner has returned while the
\* catalog of the canonical repository is held, tags and all.
C1_Witness ==
    /\ cached_repo_releases_info # None
    /\ cached_repo_releases_info[1].tags # <<>>
    /\ result.op = "cache"
    /\ result.status = "ok"
    /\ result.arg # cached_repo_releases_info[1].owner

\* C2 (as claimed): while the catalog has never been cached, the last
\* selector operation called has failed with CatalogNotCachedError.
C2_SelectorsFailUncached ==
    (cached_repo_releases_info = None /\ result.op \in SelectorOps)
        => result.status = "CatalogNotCachedError"

\* C3: a fetch in which some page request was not answered with success
\* fails with RemoteAPIError and leaves the global unset; every fetch asks
\* for pages 1, 2, ... from page 1; and while the global is unset a cache
\* call that populates it is possible.
C3_FailedFetchCachesNothing ==
    /\ result.status = "RemoteAPIError" =>
           /\ cached_repo_releases_info = None
           /\ failed_fetches > 0
    /\ requested = [i \in 1..Len(requested) |-> i]
    /\ cached_repo_releases_info = None =>
           ENABLED (\E rs \in [1..1 -> LifeReleases] :
                        /\ CacheRepoReleasesInfo(CanonicalOwner, CanonicalRepo,
                                                 MakeApi(rs, <<1>>))
                        /\ cached_repo_releases_info' # None
                        /\ cached_repo_releases_info'[1].tags # <<>>
                        /\ requested'[1] = 1)

\* C3 witness: the cache call failed on page 2, after page 1 had delivered
\* entries, and nothing is cached.
C3_Witness ==
    /\ result.op = "cache"
    /\ result.status = "RemoteAPIError"
    /\ requested = <<1, 2>>
    /\ cached_repo_releases_info = None


-----------------------------------------------------------------------------
(* The catalog-building specification: the cache call and the selector on  *)
(* releases with duplicate and missing tag names, both release kinds, equal *)
(* and different timestamps, and empty, missing and non-empty asset lists.  *)

BuildAssetLists == {<<>>, <<JsonAsset("a.zip", UrlRelease)>>}
BuildReleases ==
    JsonReleases({}, TagNames, BOOLEAN, {1, 2}, BuildAssetLists)
        \cup {JsonRelease({"tag_name", "assets"}, NoneTag, pre, time, <<>>) :
                  pre \in BOOLEAN, time \in {1, 2}}
BuildTags == {"v1", NoneTag}

\* The API answers every request with success here; failures are the
\* subject of Spec.
NextBuild ==
    \/ \E n \in ReleaseCounts(MaxReleases) :
           \E rs \in [1..n -> BuildReleases], shape \in ShapesRead(n, FALSE) :
               CacheRepoReleasesInfo(CanonicalOwner, CanonicalRepo, MakeApi(rs, shape))
    \/ Selector(BuildTags)

SpecBuild == Init /\ [][NextBuild]_vars

Cached == cached_repo_releases_info # None
Tags == cached_repo_releases_info[1].tags

\* C4 (as claimed): at most one tag of the catalog has is_latest, and one
\* that has it is the first tag in catalog order that is not a prerelease
\* (so none has it when every release is a prerelease).
C4_AtMostOneLatest ==
    Cached =>
        /\ \A i, j \in 1..Len(Tags) : Tags[i].is_latest /\ Tags[j].is_latest => i = j
        /\ \A i \in 1..Len(Tags) :
               Tags[i].is_latest =>
                   /\ ~Tags[i].is_prerelease
                   /\ \A j \in 1..(i - 1) : Tags[j].is_prerelease

Injections(n) == {p \in [1..n -> 1..n] : \A i, j \in 1..n : p[i] = p[j] => i = j}

\* Tag i of the catalog is built from entry k of the accumulated responses.
BuiltFrom(tag, release) ==
    /\ tag.tag = Get(release, "tag_name", NoneTag)
    /\ tag.is_prerelease = Get(release, "prerelease", FALSE)
    /\ tag.created_at = Get(release, "created_at", 0)
    /\ Len(tag.assets) = Len(Get(release, "assets", <<>>))

\* C5: the tags are in non-increasing created_at order, and they are the
\* accumulated API entries rearranged so that entries with equal created_at
\* keep the relative order of the responses.
C5_SortedStable ==
    Cached =>
        /\ \A i \in 1..(Len(Tags) - 1) : Tags[i].created_at >= Tags[i + 1].created_at
        /\ Len(Tags) = Len(all_releases)
        /\ \E p \in Injections(Len(Tags)) :
               /\ \A i \in 1..Len(Tags) : BuiltFrom(Tags[i], all_releases[p[i]])
               /\ \A i, j \in 1..Len(Tags) :
                      (i < j /\ Tags[i].created_at = Tags[j].created_at) => p[i] < p[j]

\* C5 witness: a catalog holding two different releases with the same
\* timestamp.
C5_Witness ==
    /\ Cached
    /\ \E i \in 1..(Len(Tags) - 1) :
           /\ Tags[i].created_at = Tags[i + 1].created_at
           /\ Tags[i].tag # Tags[i + 1].tag


AllWithAssets == get_all_tags_with_assets(cached_repo_releases_info).value
PreWithAssets == get_pre_release_tags_with_assets(cached_repo_releases_info).value
NormalWithAssets == get_normal_release_tags_with_assets(cached_repo_releases_info).value

Count(s, x) == Cardinality({i \in 1..Len(s) : s[i] = x})

\* C6 (as claimed): the names returned by the normal-release query and by
\* the prerelease query have no element in common and together are exactly
\* the names returned by tags with assets.
C6_NamesPartition ==
    Cached =>
        /\ Range(NormalWithAssets) \cap Range(PreWithAssets) = {}
        /\ Range(NormalWithAssets) \cup Range(PreWithAssets) = Range(AllWithAssets)

\* C6 (amended): every tag with assets is returned by exactly one of the two
\* queries, so each name occurs in tags with assets as often as in the two
\* results together; and the two results have no name in common when the
\* names returned by tags with assets are pairwise distinct.
C6_TagsPartition ==
    Cached =>
        /\ \A name \in Range(AllWithAssets) \cup Range(NormalWithAssets)
                           \cup Range(PreWithAssets) :
               Count(AllWithAssets, name) =
                   Count(NormalWithAssets, name) + Count(PreWithAssets, name)
        /\ (\A i, j \in 1..Len(AllWithAssets) :
                AllWithAssets[i] = AllWithAssets[j] => i = j)
               => Range(NormalWithAssets) \cap Range(PreWithAssets) = {}

\* C6 witness: the normal-release query has returned a name while the
\* catalog also holds a prerelease with assets under another name.
C6_Witness ==
    /\ Cached
    /\ result.op = "normal_release_tags_with_assets"
    /\ result.status = "ok"
    /\ Len(result.value) = 1
    /\ Len(PreWithAssets) = 1
    /\ PreWithAssets # result.value

RECURSIVE NamesWithAssets(_)
NamesWithAssets(tags) ==
    IF tags = <<>> THEN <<>>
    ELSE IF Len(Head(tags).assets) > 0
         THEN <<Head(tags).tag>> \o NamesWithAssets(Tail(tags))
         ELSE NamesWithAssets(Tail(tags))

\* C7: has_assets of every tag says whether its assets sequence is
\* non-empty; tags with assets returns the names of exactly those tags in
\* catalog order, one per API release whose assets list is present and
\* non-empty.
C7_HasAssets ==
    Cached =>
        /\ \A i \in 1..Len(Tags) : Tags[i].has_assets <=> Len(Tags[i].assets) > 0
        /\ AllWithAssets = NamesWithAssets(Tags)
        /\ Len(AllWithAssets) =
               Cardinality({k \in 1..Len(all_releases) :
                               /\ "assets" \in all_releases[k].keys
                               /\ all_releases[k].assets # <<>>})

\* C7 witness: tags with assets has returned one name from a catalog that
\* also holds a tag whose release had no assets key.
C7_Witness ==
    /\ Cached
    /\ result.op = "tags_with_assets"
    /\ result.status = "ok"
    /\ Len(result.value) = 1
    /\ Len(Tags) = 2
    /\ \E k \in 1..Len(all_releases) : "assets" \notin all_releases[k].keys

NormalIndexes == {i \in 1..Len(Tags) : Tags[i].has_assets /\ ~Tags[i].is_prerelease}

\* C8: with the catalog held, default tag returns the name of the first tag
\* in catalog order that is not a prerelease and has assets, and fails with
\* NoDefaultTagError when the catalog has no such tag.
C8_DefaultTag ==
    Cached =>
        LET default == get_default_ue4ss_version_tag(cached_repo_releases_info)
        IN IF NormalIndexes = {}
           THEN default.status = "NoDefaultTagError"
           ELSE /\ default.status = "ok"
                /\ \E i \in NormalIndexes :
                       /\ \A j \in NormalIndexes : i <= j
                       /\ default.value = Tags[i].tag

\* C8 witness: default tag has failed with NoDefaultTagError on a catalog
\* whose only tag with assets is a prerelease.
C8_Witness ==
    /\ Cached
    /\ result.op = "default_tag"
    /\ result.status = "NoDefaultTagError"
    /\ Len(PreWithAssets) > 0


-----------------------------------------------------------------------------
(* The asset-selection specification: the cache call and the selector on   *)
(* releases whose asset lists repeat file names and mix installable,       *)
(* developer and unrelated download URLs.                                  *)

SelAssets == {JsonAsset("a.zip", UrlDev), JsonAsset("a.zip", UrlRelease),
              JsonAsset("b.zip", UrlOther), JsonAsset("b.zip", UrlMirror)}
SelTags == {"v1", "v2"}

\* The sequence s dealt out in runs of the lengths of counts.
RECURSIVE Deal(_, _)
Deal(s, counts) ==
    IF counts = <<>> THEN <<>>
    ELSE <<SubSeq(s, 1, Head(counts))>>
             \o Deal(SubSeq(s, Head(counts) + 1, Len(s)), Tail(counts))

\* One page of releases named `names`, release i holding run i of `dealt`.
SelApi(names, dealt) ==
    <<OkResponse([i \in 1..Len(names) |-> JsonRelease({}, names[i], FALSE, 1, dealt[i])])>>

\* At most MaxAssets assets in all, over at most MaxReleases releases.
NextSel ==
    \/ \E n \in ReleaseCounts(MaxReleases), t \in 0..MaxAssets :
           \E names \in [1..n -> SelTags], assets \in [1..t -> SelAssets],
              counts \in {c \in Shapes(t, n, FALSE) : Len(c) = n} :
               CacheRepoReleasesInfo(CanonicalOwner, CanonicalRepo,
                                     SelApi(names, Deal(assets, counts)))
    \/ Selector(SelTags)

SpecSel == Init /\ [][NextSel]_vars

\* A download URL qualifies when it has the word ue4ss and not the word
\* zdev, in any letter case.
Qualifies(url) ==
    /\ \E i \in 1..Len(url) : url[i] \in {"ue4ss", "UE4SS"}
    /\ ~\E i \in 1..Len(url) : url[i] \in {"zdev", "zDEV"}

\* C9: with the catalog held, select installable asset returns the URL of
\* the first entry of the tag's asset map that qualifies, never a URL that
\* does not qualify, and fails with NoCompatibleAssetError naming the tag
\* when no entry qualifies (the tag absent or without assets included).
C9_SelectAsset ==
    Cached =>
        \A tag \in SelTags :
            LET map == get_file_name_to_download_links_from_tag(
                           cached_repo_releases_info, tag).value
                selected == select_installable_asset(cached_repo_releases_info, tag)
                Qualifying == {i \in 1..Len(map) : Qualifies(map[i][2])}
            IN IF Qualifying = {}
               THEN /\ selected.status = "NoCompatibleAssetError"
                    /\ selected.arg = tag
               ELSE /\ selected.status = "ok"
                    /\ Qualifies(selected.value)
                    /\ \E i \in Qualifying :
                           /\ \A j \in Qualifying : i <= j
                           /\ selected.value = map[i][2]

\* C9 witness: the selection has skipped the developer build listed first
\* and returned the installable asset listed second.
C9_Witness ==
    /\ Cached
    /\ result.op = "select_asset"
    /\ result.status = "ok"
    /\ LET map == get_file_name_to_download_links_from_tag(
                      cached_repo_releases_info, result.arg).value
       IN /\ Len(map) = 2
          /\ map[1][2] = UrlDev
          /\ result.value = map[2][2]


-----------------------------------------------------------------------------
(* Config section parser/writer.  A text is a sequence of characters, a    *)
(* line break being the character "\n"; keys, values, headers and          *)
(* comments are sequences of characters too.                               *)

Chars == {" ", "\n", "[", "]", ";", "=", "a"}
Whitespace == {" ", "\n"}

\* Iterating a text file: each line with its "\n", and a last line without
\* one when the text does not end in "\n".
RECURSIVE LinesFrom(_, _)
LinesFrom(text, line) ==
    IF text = <<>> THEN (IF line = <<>> THEN <<>> ELSE <<line>>)
    ELSE IF Head(text) = "\n" THEN <<Append(line, "\n")>> \o LinesFrom(Tail(text), <<>>)
    ELSE LinesFrom(Tail(text), Append(line, Head(text)))

FileLines(text) == LinesFrom(text, <<>>)

RECURSIVE LStrip(_)
LStrip(s) ==
    IF s # <<>> /\ Head(s) \in Whitespace THEN LStrip(Tail(s)) ELSE s

RECURSIVE RStrip(_)
RStrip(s) ==
    IF s # <<>> /\ s[Len(s)] \in Whitespace THEN RStrip(SubSeq(s, 1, Len(s) - 1)) ELSE s

NoStrip(s) == s

\* str.strip()
Strip(s) == RStrip(LStrip(s))

StartsWith(s, c) == s # <<>> /\ s[1] = c
EndsWith(s, c) == s # <<>> /\ s[Len(s)] = c
Has(s, c) == \E i \in 1..Len(s) : s[i] = c
FirstIndex(s, c) == CHOOSE i \in 1..Len(s) : s[i] = c /\ \A j \in 1..(i - 1) : s[j] # c

ConfigEntry(key, value, comments) == [key |-> key, value |-> value, comments |-> comments]
ConfigSection(header, entries) == [header |-> header, config_entries |-> entries]

KeyValueUnstripped(stripped) ==
    LET at == FirstIndex(stripped, "=")
    IN [key |-> SubSeq(stripped, 1, at - 1),
        value |-> SubSeq(stripped, at + 1, Len(stripped))]

LastIndex(s, c) == CHOOSE i \in 1..Len(s) : s[i] = c /\ \A j \in (i + 1)..Len(s) : s[j] # c

KeyValueSplitAtLast(stripped) ==
    LET at == LastIndex(stripped, "=")
    IN [key |-> Strip(SubSeq(stripped, 1, at - 1)),
        value |-> Strip(SubSeq(stripped, at + 1, Len(stripped)))]

\* key, value = stripped.split("=", 1), each then stripped.
KeyValue(stripped) ==
    LET at == FirstIndex(stripped, "=")
    IN [key |-> Strip(SubSeq(stripped, 1, at - 1)),
        value |-> Strip(SubSeq(stripped, at + 1, Len(stripped)))]

ParseLineKeepingComments(line, st) ==
    LET stripped == Strip(line)
    IN IF stripped = <<>> THEN st
       ELSE IF StartsWith(stripped, "[") /\ EndsWith(stripped, "]")
       THEN [sections |-> IF st.current_section # None
                          THEN Append(st.sections, st.current_section[1])
                          ELSE st.sections,
             current_section |-> Some(ConfigSection(stripped, <<>>)),
             pending_comments |-> st.pending_comments]
       ELSE IF StartsWith(stripped, ";")
       THEN [st EXCEPT !.pending_comments = Append(@, stripped)]
       ELSE IF Has(stripped, "=")
       THEN LET open == IF st.current_section = None THEN ConfigSection(<<>>, <<>>)
                        ELSE st.current_section[1]
                kv == KeyValue(stripped)
                entry == ConfigEntry(kv.key, kv.value, st.pending_comments)
            IN [sections |-> st.sections,
                current_section |->
                    Some(ConfigSection(open.header, Append(open.config_entries, entry))),
                pending_comments |-> <<>>]
       ELSE [st EXCEPT !.pending_comments = Append(@, stripped)]

\* One iteration of the loop at lines 232-254 on the parser's locals.
ParseLine(line, st) ==
    LET stripped == Strip(line)
    IN IF stripped = <<>> THEN st
       ELSE IF StartsWith(stripped, "[") /\ EndsWith(stripped, "]")
       THEN [sections |-> IF st.current_section # None
                          THEN Append(st.sections, st.current_section[1])
                          ELSE st.sections,
             current_section |-> Some(ConfigSection(stripped, <<>>)),
             pending_comments |-> <<>>]
       ELSE IF StartsWith(stripped, ";")
       THEN [st EXCEPT !.pending_comments = Append(@, stripped)]
       ELSE IF Has(stripped, "=")
       THEN LET open == IF st.current_section = None THEN ConfigSection(<<>>, <<>>)
                        ELSE st.current_section[1]
                kv == KeyValue(stripped)
                entry == ConfigEntry(kv.key, kv.value, st.pending_comments)
            IN [sections |-> st.sections,
                current_section |->
                    Some(ConfigSection(open.header, Append(open.config_entries, entry))),
                pending_comments |-> <<>>]
       ELSE [st EXCEPT !.pending_comments = Append(@, stripped)]

RECURSIVE ParseLines(_, _)
ParseLines(lines, st) ==
    IF lines = <<>> THEN st ELSE ParseLines(Tail(lines), ParseLine(Head(lines), st))

ParseDroppingEmptySections(text) ==
    LET st == ParseLines(FileLines(text),
                         [sections |-> <<>>, current_section |-> None,
                          pending_comments |-> <<>>])
        all == IF st.current_section # None
               THEN Append(st.sections, st.current_section[1])
               ELSE st.sections
        Test(section) == section.config_entries # <<>>
    IN SelectSeq(all, Test)

parse_ue4ss_settings_file(text) ==
    LET st == ParseLines(FileLines(text),
                         [sections |-> <<>>, current_section |-> None,
                          pending_comments |-> <<>>])
    IN IF st.current_section # None THEN Append(st.sections, st.current_section[1])
       ELSE st.sections

RECURSIVE Concat(_)
Concat(ss) == IF ss = <<>> THEN <<>> ELSE Head(ss) \o Concat(Tail(ss))

WriteLine(s) == Append(s, "\n")

WriteEntry(entry) ==
    Concat([i \in 1..Len(entry.comments) |-> WriteLine(entry.comments[i])])
        \o WriteLine(entry.key \o <<" ", "=", " ">> \o entry.value)

WriteSection(section) ==
    (IF section.header # <<>> THEN WriteLine(section.header) ELSE <<>>)
        \o Concat([i \in 1..Len(section.config_entries) |->
                      WriteEntry(section.config_entries[i])])
        \o <<"\n">>

write_ue4ss_settings_file(secs) ==
    Concat([i \in 1..Len(secs) |-> WriteSection(secs[i])])

\* The file is written by hand, one character at a time, before it is read.
EditFile(c) ==
    /\ sections = None
    /\ Len(file_text) < MaxChars
    /\ file_text' = Append(file_text, c)
    /\ UNCHANGED <<catalogVars, result, fsVars, sections, envVars>>

ParseFile ==
    /\ sections' = Some(parse_ue4ss_settings_file(file_text))
    /\ UNCHANGED <<catalogVars, result, fsVars, file_text, envVars>>

WriteFile ==
    /\ sections # None
    /\ file_text' = write_ue4ss_settings_file(sections[1])
    /\ UNCHANGED <<catalogVars, result, fsVars, sections, envVars>>

NextIni ==
    \/ \E c \in Chars : EditFile(c)
    \/ ParseFile
    \/ WriteFile

SpecIni == Init /\ [][NextIni]_vars

\* C10: parsing what the writer emits for a parse result gives that parse
\* result again, for the text on disk and for the sections in memory; and a
\* text that the writer emitted is reproduced character by character by
\* parsing and writing it.
C10_RoundTrip ==
    LET parsed == parse_ue4ss_settings_file(file_text)
        emitted == write_ue4ss_settings_file(parsed)
    IN /\ parse_ue4ss_settings_file(emitted) = parsed
       /\ write_ue4ss_settings_file(parse_ue4ss_settings_file(emitted)) = emitted
       /\ (sections # None /\ file_text = write_ue4ss_settings_file(sections[1]))
              => /\ parsed = sections[1]
                 /\ emitted = file_text

\* C10 witness: the file on disk is what the writer emitted for the held
\* sections, which have a header and an entry that carries a comment.
C10_Witness ==
    /\ sections # None
    /\ sections[1] # <<>>
    /\ file_text = write_ue4ss_settings_file(sections[1])
    /\ \E i \in 1..Len(sections[1]) :
           /\ sections[1][i].header # <<>>
           /\ \E k \in 1..Len(sections[1][i].config_entries) :
                  sections[1][i].config_entries[k].comments # <<>>


-----------------------------------------------------------------------------
(* Claims about the installer, checked under Spec *)

InstallOps == {"install_latest", "install"}

\* The step leaves the outcome of the last operation as it is.
SameResult ==
    /\ result'.op = result.op
    /\ result'.arg = result.arg
    /\ result'.status = result.status
    /\ result'.value = result.value

\* A step of the environment.
ExternalStep ==
    /\ SameResult
    /\ \/ ExternalRemoveZip
       \/ \E archive \in ExternalArchives : ExternalPutZip(archive)

\* A step of either install entry point, for any tag, API behaviour and
\* way the transfer can end: only the install entry points set the outcome
\* of an install call, and the environment leaves the outcome that is there.
InstallStep ==
    /\ result'.op \in InstallOps
    /\ ~ExternalStep

InstallOrder == <<"ensure_cached", "resolve_tag", "select_asset", "download",
                  "extract", "delete">>

\* In the steps t of a call, every step of As comes before every step b.
Before(t, As, b) ==
    \A i, j \in 1..Len(t) : (t[i] \in As /\ t[j] = b) => i < j

\* C11: an install call that starts with no cache file and returns normally
\* has performed exactly the steps ensure cached, resolve tag, select asset,
\* download, extract, delete, in this order; in every install call an
\* extraction comes after the download call of that call has returned and a
\* deletion comes after and only with an extraction; and every install call
\* that returns normally leaves no file at the cache path.
C11_InstallOrder ==
    [][InstallStep =>
           /\ Before(trace', {"download", "download_failed"}, "extract")
           /\ Before(trace', {"extract"}, "delete")
           /\ "delete" \in Range(trace') => "extract" \in Range(trace')
           /\ ("extract" \in Range(trace') /\ zip_file = None) =>
                  \E i \in 1..Len(trace') : trace'[i] \in {"download", "download_failed"}
           /\ result'.status = "ok" =>
                  /\ zip_file' = None
                  /\ zip_file = None => trace' = InstallOrder]_vars

\* C11 witness: an install call that found no cache file has returned
\* normally after all six steps, the archive is in the target directory
\* and the cache file is gone.
C11_Witness ==
    /\ result.op \in InstallOps
    /\ result.status = "ok"
    /\ trace = InstallOrder
    /\ zip_file = None
    /\ \E link \in game_dir : link = UrlRelease

\* C12 (as claimed): an install call whose download failed has raised the
\* transfer failure to its caller and has attempted neither the extraction
\* nor the deletion of the cache file.
C12_TransferFailurePropagates ==
    (result.op \in InstallOps /\ "download_failed" \in Range(trace)) =>
        /\ result.status = "TransferError"
        /\ "extract" \notin Range(trace)
        /\ "delete" \notin Range(trace)


-----------------------------------------------------------------------------
(* Claims about the parser, checked under SpecIni *)

\* The lines of a text as the parser looks at them: trimmed, blank ones
\* left out.
StrippedLines(text) ==
    LET lines == FileLines(text)
        Test(line) == line # <<>>
    IN SelectSeq([i \in 1..Len(lines) |-> Strip(lines[i])], Test)

IsHeaderLine(line) == line[1] = "[" /\ line[Len(line)] = "]"
IsSemicolonLine(line) == line[1] = ";"
IsEntryLine(line) ==
    /\ ~IsHeaderLine(line)
    /\ ~IsSemicolonLine(line)
    /\ \E i \in 1..Len(line) : line[i] = "="

\* Where the sections of a text start: position 0 for the section without
\* header when an entry line comes before every header line, then the
\* position of each header line.
SectionStarts(lines) ==
    LET IsHeaderAt(i) == IsHeaderLine(lines[i])
        headers == SelectSeq([i \in 1..Len(lines) |-> i], IsHeaderAt)
        leading == \E i \in 1..Len(lines) :
                       /\ IsEntryLine(lines[i])
                       /\ \A j \in 1..i : ~IsHeaderLine(lines[j])
    IN (IF leading THEN <<0>> ELSE <<>>) \o headers

\* The positions of the lines that belong to the k-th section.
SectionLines(lines, k) ==
    LET starts == SectionStarts(lines)
        end == IF k < Len(starts) THEN starts[k + 1] ELSE Len(lines) + 1
    IN {i \in 1..Len(lines) : starts[k] < i /\ i < end}

\* C13: the parsed sections are, in file order, one section per header
\* line carrying that line as its header, preceded by one section with
\* header "" exactly when an entry line comes before the first header line;
\* nothing is merged or dropped: each section has one entry per entry
\* line between its header line and the next, none when there is none; and
\* no section but the first has header "".
C13_SectionsInFileOrder ==
    sections # None =>
        LET lines == StrippedLines(file_text)
            starts == SectionStarts(lines)
            parsed == sections[1]
        IN /\ Len(parsed) = Len(starts)
           /\ \A k \in 1..Len(parsed) :
                  /\ parsed[k].header =
                         (IF starts[k] = 0 THEN <<>> ELSE lines[starts[k]])
                  /\ Len(parsed[k].config_entries) =
                         Cardinality({i \in SectionLines(lines, k) : IsEntryLine(lines[i])})
                  /\ k > 1 => parsed[k].header # <<>>

\* C13 witness: a file with the same header line twice has been parsed
\* into two sections with that header, the second without entries.
C13_Witness ==
    /\ sections # None
    /\ Len(sections[1]) = 2
    /\ sections[1][1].header # <<>>
    /\ sections[1][1].header = sections[1][2].header
    /\ sections[1][2].config_entries = <<>>
    /\ parse_ue4ss_settings_file(file_text) = sections[1]


-----------------------------------------------------------------------------
(* The pagination specification: a behaviour starts with the API's answers *)
(* fixed (pages of any sizes, empty pages before non-empty ones, failures) *)
(* and fetches from it.                                                    *)

PageReleases == JsonReleases({}, {"v1", "v2"}, {FALSE}, {1, 2}, {<<>>})

InitPages ==
    /\ cached_repo_releases_info = None
    /\ all_releases = <<>>
    /\ requested = <<>>
    /\ failed_fetches = 0
    /\ result = NoResult
    /\ zip_file = None
    /\ game_dir = {}
    /\ trace = <<>>
    /\ file_text = <<>>
    /\ sections = None
    /\ \E n \in 0..MaxReleases :
           \E rs \in [1..n -> PageReleases], shape \in Shapes(n, MaxPages, TRUE) :
               remote_api = MakeApi(rs, shape)

FetchFromRemote == CacheRepoReleasesInfo(CanonicalOwner, CanonicalRepo, remote_api)

NextPages ==
    \/ FetchFromRemote
    \/ Selector(TagNames)

SpecPages == InitPages /\ [][NextPages]_vars

\* The first page the API answers with no entries or without success.
StopPage(api) ==
    CHOOSE p \in 1..(Len(api) + 1) :
        /\ p <= Len(api) => (api[p].status_code # HTTP_OK \/ api[p].body = <<>>)
        /\ \A q \in 1..(p - 1) : api[q].status_code = HTTP_OK /\ api[q].body # <<>>

\* The entries of the pages before page p, page by page.
EntriesBefore(api, p) == Concat([q \in 1..(p - 1) |-> api[q].body])

\* C14: a fetch requests the pages 1, 2, 3, ... up to and including the
\* first page answered with zero entries or without success and no page
\* after it; when that page was answered with success the catalog is held
\* and its tags are the entries of all pages before it, each exactly once
\* in some order; when it was not, nothing is held.
C14_Pagination ==
    requested # <<>> =>
        LET stop == StopPage(remote_api)
            entries == EntriesBefore(remote_api, stop)
            failed == stop <= Len(remote_api) /\ remote_api[stop].status_code # HTTP_OK
        IN /\ requested = [i \in 1..stop |-> i]
           /\ Cached <=> ~failed
           /\ Cached =>
                  /\ all_releases = entries
                  /\ Len(Tags) = Len(entries)
                  /\ \E p \in Injections(Len(Tags)) :
                         \A i \in 1..Len(Tags) : BuiltFrom(Tags[i], entries[p[i]])

\* C14 witness: two pages of one release each and then an empty page have
\* been fetched, pages 1, 2 and 3 requested, and the release of page 2 is
\* the first tag of the catalog.
C14_Witness ==
    /\ Cached
    /\ requested = <<1, 2, 3>>
    /\ Len(remote_api) >= 2
    /\ Len(remote_api[1].body) = 1
    /\ Len(remote_api[2].body) = 1
    /\ Len(Tags) = 2
    /\ Tags[1].tag = remote_api[2].body[1].tag_name
    /\ Tags[1].tag # Tags[2].tag


-----------------------------------------------------------------------------
(* Claims about the asset map, checked under SpecSel *)

\* The assets of the first catalog tag named `tag`; None when no tag has
\* that name.
AssetsOfFirst(tag) ==
    LET named == {i \in 1..Len(Tags) : Tags[i].tag = tag}
    IN IF named = {} THEN None
       ELSE Some(Tags[CHOOSE i \in named : \A j \in named : i <= j].assets)

AssetMap(tag) == get_file_name_to_download_links_from_tag(cached_repo_releases_info, tag)

\* C15 (as claimed): the asset map of a tag that no catalog tag has is
\* empty and not an error; otherwise it has, for the first catalog tag of
\* that name, one entry per asset, in asset order, mapping the asset's file
\* name to the asset's download URL, and nothing else.
C15_EntryPerAsset ==
    Cached =>
        \A tag \in SelTags :
            LET assets == AssetsOfFirst(tag)
            IN /\ AssetMap(tag).status = "ok"
               /\ AssetMap(tag).value =
                      (IF assets = None THEN <<>>
                       ELSE [k \in 1..Len(assets[1]) |->
                                <<assets[1][k].file_name, assets[1][k].download_link>>])

\* C15 (amended): the asset map of a tag that no catalog tag has is empty
\* and not an error; otherwise it has, for the first catalog tag of that
\* name, exactly one entry per file name occurring among the tag's assets,
\* mapping the name to the download URL of the last asset with that name,
\* the entries in the order in which the names first occur among the
\* assets, and nothing else.
C15_EntryPerFileName ==
    Cached =>
        \A tag \in SelTags :
            LET assets == AssetsOfFirst(tag)
                map == AssetMap(tag).value
                First(name) == CHOOSE k \in 1..Len(assets[1]) :
                                   /\ assets[1][k].file_name = name
                                   /\ \A h \in 1..(k - 1) : assets[1][h].file_name # name
                Last(name) == CHOOSE k \in 1..Len(assets[1]) :
                                  /\ assets[1][k].file_name = name
                                  /\ \A h \in (k + 1)..Len(assets[1]) :
                                         assets[1][h].file_name # name
            IN /\ AssetMap(tag).status = "ok"
               /\ IF assets = None THEN map = <<>>
                  ELSE /\ {map[i][1] : i \in 1..Len(map)} =
                              {assets[1][k].file_name : k \in 1..Len(assets[1])}
                       /\ \A i, j \in 1..Len(map) :
                              i < j => First(map[i][1]) < First(map[j][1])
                       /\ \A i \in 1..Len(map) :
                              map[i][2] = assets[1][Last(map[i][1])].download_link

\* C15 witness: the asset map of a tag whose two assets share a file name
\* has been returned with the one entry for that name.
C15_Witness ==
    /\ Cached
    /\ result.op = "asset_map"
    /\ result.status = "ok"
    /\ AssetsOfFirst(result.arg) # None
    /\ LET assets == AssetsOfFirst(result.arg)[1]
       IN /\ Len(assets) = 2
          /\ assets[1].file_name = assets[2].file_name
          /\ assets[1].download_link # assets[2].download_link
          /\ result.value = <<<<assets[2].file_name, assets[2].download_link>>>>


-----------------------------------------------------------------------------
(* Claims about comments and entries, checked under SpecIni *)

\* The entries of a parse result, section after section.
AllEntries(parsed) == Concat([k \in 1..Len(parsed) |-> parsed[k].config_entries])

\* The positions of the entry lines among the lines, in file order.
EntryPositions(lines) ==
    LET IsEntryAt(i) == IsEntryLine(lines[i])
    IN SelectSeq([i \in 1..Len(lines) |-> i], IsEntryAt)

\* The position of the last header or entry line before position e, 0
\* when there is none.
RunStart(lines, e) ==
    LET Closing == {i \in 1..(e - 1) : IsHeaderLine(lines[i]) \/ IsEntryLine(lines[i])}
    IN IF Closing = {} THEN 0 ELSE CHOOSE i \in Closing : \A j \in Closing : j <= i

\* C16: the n-th entry of the parse result carries as comments exactly the
\* non-blank lines, trimmed and in file order, that lie between the last
\* header or entry line before the n-th entry line and that entry line:
\* all of them are comment lines (starting with ';', or neither header nor
\* entry); blank lines between them change nothing; each comment line is
\* attached to at most one entry, and a comment line with a header line or
\* the end of the file after it and no entry line in between is attached
\* to none.
C16_CommentsAttach ==
    sections # None =>
        LET lines == StrippedLines(file_text)
            at == EntryPositions(lines)
            entries == AllEntries(sections[1])
            Attached(i) == {n \in 1..Len(at) : RunStart(lines, at[n]) < i /\ i < at[n]}
        IN /\ Len(entries) = Len(at)
           /\ \A n \in 1..Len(entries) :
                  entries[n].comments =
                      SubSeq(lines, RunStart(lines, at[n]) + 1, at[n] - 1)
           /\ \A i \in 1..Len(lines) :
                  /\ Cardinality(Attached(i)) <= 1
                  /\ Attached(i) # {} =>
                         /\ ~IsHeaderLine(lines[i]) /\ ~IsEntryLine(lines[i])
                         /\ \A n \in Attached(i) :
                                \E c \in 1..Len(entries[n].comments) :
                                    entries[n].comments[c] = lines[i]

\* C16 witness: an entry has been parsed with two comments, a ';' line and
\* a line of other text, that a blank line separates in the file.
C16_Witness ==
    /\ sections # None
    /\ sections[1] = parse_ue4ss_settings_file(file_text)
    /\ \E i \in 1..(Len(file_text) - 1) : file_text[i] = "\n" /\ file_text[i + 1] = "\n"
    /\ \E n \in 1..Len(AllEntries(sections[1])) :
           AllEntries(sections[1])[n].comments = << <<";">>, <<"a">> >>

\* The text of a line before and after its first "=".
BeforeEquals(line) ==
    LET at == CHOOSE i \in 1..Len(line) : line[i] = "=" /\ \A j \in 1..(i - 1) : line[j] # "="
    IN SubSeq(line, 1, at - 1)
AfterEquals(line) == SubSeq(line, Len(BeforeEquals(line)) + 2, Len(line))

\* C17: the entries of the parse result are, in file order, the trimmed
\* non-blank lines that contain '=' and are neither shaped like '[...]' nor
\* start with ';'; the key of each is the text before the line's first
\* '=' trimmed and the value all the text after that '=' trimmed, further
\* '=' characters included.
C17_Classification ==
    sections # None =>
        LET lines == StrippedLines(file_text)
            at == EntryPositions(lines)
            entries == AllEntries(sections[1])
        IN /\ Len(entries) = Len(at)
           /\ \A n \in 1..Len(entries) :
                  /\ entries[n].key = Strip(BeforeEquals(lines[at[n]]))
                  /\ entries[n].value = Strip(AfterEquals(lines[at[n]]))
           /\ \A i \in 1..Len(lines) :
                  IsHeaderLine(lines[i]) =>
                      \E k \in 1..Len(sections[1]) : sections[1][k].header = lines[i]

\* C17 witness: a file has been parsed whose ';' line contains '=' and is
\* the comment of an entry whose value keeps a further '='.
C17_Witness ==
    /\ sections # None
    /\ sections[1] = parse_ue4ss_settings_file(file_text)
    /\ \E n \in 1..Len(AllEntries(sections[1])) :
           LET entry == AllEntries(sections[1])[n]
           IN /\ entry.comments # <<>>
              /\ \E i \in 1..Len(entry.comments[1]) : entry.comments[1][i] = "="
              /\ \E i \in 1..Len(entry.value) : entry.value[i] = "="
              /\ entry.key # <<>>


-----------------------------------------------------------------------------
(* Claims about the cache file, checked under Spec *)

BadArchive(zip) == zip # None /\ zip[1].state # "valid"

\* C18: an install call that finds a file at the cache path makes no API
\* request and leaves the catalog as it is, unset included; it resolves no
\* tag, selects no asset and downloads nothing; it extracts the file that
\* was there and, the extraction done, deletes it: what the target
\* directory and the cache path hold afterwards depends on that file alone,
\* not on the entry point or the tag.
C18_ExistingFileInstalled ==
    [][(InstallStep /\ zip_file # None) =>
           /\ UNCHANGED catalogVars
           /\ trace' \in {<<"extract">>, <<"extract", "delete">>}
           /\ IF zip_file[1].state = "valid"
              THEN /\ trace' = <<"extract", "delete">>
                   /\ game_dir' = game_dir \cup {zip_file[1].link}
                   /\ zip_file' = None
                   /\ result'.status = "ok"
              ELSE /\ game_dir' = game_dir
                   /\ result'.status = "ArchiveExtractionError"]_vars

\* C18 witness: with the catalog unset, an install call for a tag has
\* extracted and deleted the file that was put at the cache path, and the
\* catalog is still unset with no page ever requested.
C18_Witness ==
    /\ result.op = "install"
    /\ result.arg = "v2"
    /\ result.status = "ok"
    /\ trace = <<"extract", "delete">>
    /\ cached_repo_releases_info = None
    /\ requested = <<>>
    /\ zip_file = None
    /\ game_dir = {<<"external">>}

\* C19: an install call that fails in the extraction leaves at the cache
\* path the file it tried to extract; while a file that is not a valid
\* archive is at the cache path, every install call, for any entry point
\* and tag, only attempts the extraction, fails in it, and leaves the
\* file, the target directory and the catalog as they are; such a file goes
\* away by no step of the installer.
C19_BadCacheFileStays ==
    [][/\ (InstallStep /\ result'.status = "ArchiveExtractionError") =>
              /\ BadArchive(zip_file')
              /\ "delete" \notin Range(trace')
              /\ zip_file # None => zip_file' = zip_file
       /\ (InstallStep /\ BadArchive(zip_file)) =>
              /\ trace' = <<"extract">>
              /\ result'.status = "ArchiveExtractionError"
              /\ zip_file' = zip_file
              /\ game_dir' = game_dir
              /\ UNCHANGED catalogVars
       /\ (BadArchive(zip_file) /\ zip_file' # zip_file) =>
              /\ ~InstallStep
              /\ zip_file' = None
              /\ trace' = trace]_vars

\* C19 witness: a download left a file that is not a valid archive, the
\* extraction failed, and a later install call, for a tag this time, has
\* failed in the extraction of that same file without downloading.
C19_Witness ==
    /\ result.op = "install"
    /\ result.status = "ArchiveExtractionError"
    /\ trace = <<"extract">>
    /\ zip_file = Some(Archive(UrlRelease, "corrupt"))
    /\ game_dir = {}

BeforeDownload == {"RemoteAPIError", "NoDefaultTagError", "NoCompatibleAssetError"}

====
